---- MODULE Spec2Model ----
(***************************************************************************)
(* Bank simulation: Event, BinaryHeap<Event>, PriorityQueue<Event>,        *)
(* Queue<Event> and the event loop of main (BankSimApp.cpp).               *)
(***************************************************************************)
EXTENDS Integers, Sequences, FiniteSets, Bags, TLC

(***************************************************************************)
(* Bounds of the model.                                                    *)
(***************************************************************************)
\* number of (arriveTime, processTime) pairs on standard input
MaxCustomers == 3
\* largest arrival time on standard input
MaxTime == 1
\* largest processing time on standard input
MaxLen == 2
\* largest number of elements the container drivers store in a heap
MaxHeap == 4
\* largest number of customers of an input run under both tie orders
MaxTieCustomers == 4
\* largest number of enqueue calls the queue driver issues
MaxEnq == 4
\* largest event time the container drivers use
MaxDriverTime == 1

\* largest number of setter calls the Event driver makes on one Event
MaxCalls == 4

\* largest capacity the capacity driver constructs a BinaryHeap with
MaxCapacity == 3

\* largest number of elements of an array the sift driver sifts
MaxSift == 5

(***************************************************************************)
(* Program constants.                                                      *)
(***************************************************************************)
\* PriorityQueue() : minheap(2)
InitialCapacity == 2
\* (0u - 1) / 2 for a 32-bit unsigned int: (2^32 - 1) / 2
UIntMaxHalf == 2147483647
\* nullptr
NULL == 0

ARRIVAL == "ARRIVAL"
DEPARTURE == "DEPARTURE"
EventType == {ARRIVAL, DEPARTURE}

EmptyDataCollectionException == "EmptyDataCollectionException"

(***************************************************************************)
(* Event                                                                   *)
(***************************************************************************)
\* Event::Event()
Event_default == [type |-> ARRIVAL, time |-> 0, length |-> 0]

\* Event::Event(EventType aType, int aTime)
Event_type_time(aType, aTime) == [type |-> aType, time |-> aTime, length |-> 0]

\* Event::Event(EventType aType, int aTime, int aLength)
Event_type_time_length(aType, aTime, aLength) ==
    [type |-> aType, time |-> aTime,
     length |-> IF aType = ARRIVAL THEN aLength ELSE 0]

Event_getType(e) == e.type
Event_getTime(e) == e.time
Event_getLength(e) == e.length

\* Event::isArrival
Event_isArrival(e) == e.type = ARRIVAL

\* Event::setType
Event_setType(e, aType) == [e EXCEPT !.type = aType]

\* Event::setTime
Event_setTime(e, aTime) == [e EXCEPT !.time = aTime]

\* Event::setLength
Event_setLength(e, aLength) ==
    [e EXCEPT !.length = IF e.type = ARRIVAL THEN aLength ELSE 0]

\* Event::operator<=
Event_le(lhs, rhs) ==
    IF lhs.time = Event_getTime(rhs)
    THEN (lhs.type = Event_getType(rhs))
         \/ (lhs.type = ARRIVAL /\ Event_getType(rhs) = DEPARTURE)
    ELSE lhs.time < Event_getTime(rhs)

\* Event::operator<
Event_lt(lhs, other) == lhs.time < other.time

\* a wrong operator>: the comparison turned round
Event_gt_reversed(lhs, other) == lhs.time < other.time

\* Event::operator>
Event_gt(lhs, other) == lhs.time > other.time

(***************************************************************************)
(* BinaryHeap<Event>: a heap is [elements, capacity, elementCount], the    *)
(* array indexed from 0 to capacity - 1.                                   *)
(***************************************************************************)
\* new ElementType[capacity]: every slot default-constructed
NewArray(capacity) == [i \in 0..(capacity - 1) |-> Event_default]

\* BinaryHeap::BinaryHeap(unsigned int capacity)
BinaryHeap_new(capacity) ==
    [elements |-> NewArray(capacity), capacity |-> capacity, elementCount |-> 0]

\* BinaryHeap::getElementCount
BinaryHeap_getElementCount(h) == h.elementCount

\* std::swap(elements[i], elements[j])
Swap(els, i, j) == [els EXCEPT ![i] = els[j], ![j] = els[i]]

\* (indexOfChild - 1) / 2 in unsigned int arithmetic
ParentIndex(indexOfChild) ==
    IF indexOfChild = 0 THEN UIntMaxHalf ELSE (indexOfChild - 1) \div 2

\* a wrong reHeapUp: the child is swapped with a parent that is not smaller
RECURSIVE reHeapUp_swapsOnEqual(_, _)
reHeapUp_swapsOnEqual(els, indexOfChild) ==
    LET indexOfParent == ParentIndex(indexOfChild)
    IN IF indexOfChild > 0 /\ ~Event_lt(els[indexOfParent], els[indexOfChild])
       THEN reHeapUp_swapsOnEqual(Swap(els, indexOfChild, indexOfParent), indexOfParent)
       ELSE els

\* BinaryHeap::reHeapUp: the while loop, one iteration per unfolding
RECURSIVE reHeapUp(_, _)
reHeapUp(els, indexOfChild) ==
    LET indexOfParent == ParentIndex(indexOfChild)
    IN IF indexOfChild > 0 /\ Event_gt(els[indexOfParent], els[indexOfChild])
       THEN reHeapUp(Swap(els, indexOfChild, indexOfParent), indexOfParent)
       ELSE els

\* a wrong reHeapDown: the right child is taken when it is not greater than
\* the smaller of the node and its left child
RECURSIVE reHeapDown_rightOnTies(_, _, _)
reHeapDown_rightOnTies(els, elementCount, indexOfRoot) ==
    LET indexOfLeftChild == 2 * indexOfRoot + 1
        indexOfRightChild == 2 * indexOfRoot + 2
        min1 == IF indexOfLeftChild < elementCount
                   /\ Event_lt(els[indexOfLeftChild], els[indexOfRoot])
                THEN indexOfLeftChild ELSE indexOfRoot
        indexOfMinChild == IF indexOfRightChild < elementCount
                              /\ ~Event_gt(els[indexOfRightChild], els[min1])
                           THEN indexOfRightChild ELSE min1
    IN IF indexOfMinChild # indexOfRoot
       THEN reHeapDown_rightOnTies(Swap(els, indexOfRoot, indexOfMinChild), elementCount,
                                   indexOfMinChild)
       ELSE els

\* BinaryHeap::reHeapDown
RECURSIVE reHeapDown(_, _, _)
reHeapDown(els, elementCount, indexOfRoot) ==
    LET indexOfLeftChild == 2 * indexOfRoot + 1
        indexOfRightChild == 2 * indexOfRoot + 2
        min1 == IF indexOfLeftChild < elementCount
                   /\ Event_lt(els[indexOfLeftChild], els[indexOfRoot])
                THEN indexOfLeftChild ELSE indexOfRoot
        indexOfMinChild == IF indexOfRightChild < elementCount
                              /\ Event_lt(els[indexOfRightChild], els[min1])
                           THEN indexOfRightChild ELSE min1
    IN IF indexOfMinChild # indexOfRoot
       THEN reHeapDown(Swap(els, indexOfRoot, indexOfMinChild), elementCount,
                       indexOfMinChild)
       ELSE els

\* a wrong expandHeap: the array grows by one element
expandHeap_growsByOne(h) ==
    [elements |-> [i \in 0..h.capacity |->
                      IF i < h.elementCount THEN h.elements[i] ELSE Event_default],
     capacity |-> h.capacity + 1,
     elementCount |-> h.elementCount]

\* a wrong expandHeap: the copy leaves out the last element
expandHeap_dropLast(h) ==
    [elements |-> [i \in 0..(2 * h.capacity - 1) |->
                      IF i < h.elementCount - 1 THEN h.elements[i] ELSE Event_default],
     capacity |-> 2 * h.capacity,
     elementCount |-> h.elementCount]

\* BinaryHeap::expandHeap
expandHeap(h) ==
    [elements |-> [i \in 0..(2 * h.capacity - 1) |->
                      IF i < h.elementCount THEN h.elements[i] ELSE Event_default],
     capacity |-> 2 * h.capacity,
     elementCount |-> h.elementCount]

\* a wrong insert: the new element is left in the slot it was appended to
BinaryHeap_insert_noSift(h, newElement) ==
    LET g == IF h.elementCount = h.capacity THEN expandHeap(h) ELSE h
    IN [elements |-> [g.elements EXCEPT ![g.elementCount] = newElement],
        capacity |-> g.capacity,
        elementCount |-> g.elementCount + 1]

\* BinaryHeap::insert (always returns true)
BinaryHeap_insert(h, newElement) ==
    LET g == IF h.elementCount = h.capacity THEN expandHeap(h) ELSE h
        els == [g.elements EXCEPT ![g.elementCount] = newElement]
    IN [elements |-> reHeapUp(els, g.elementCount),
        capacity |-> g.capacity,
        elementCount |-> g.elementCount + 1]

\* a wrong reHeapUp: elements[indexOfParent] > elements[indexOfChild] is
\* evaluated before indexOfChild > 0
RECURSIVE reHeapUp_indices_unguarded(_, _)
reHeapUp_indices_unguarded(els, indexOfChild) ==
    LET indexOfParent == ParentIndex(indexOfChild)
    IN {indexOfParent, indexOfChild} \cup
       (IF indexOfChild > 0 /\ Event_gt(els[indexOfParent], els[indexOfChild])
        THEN reHeapUp_indices_unguarded(Swap(els, indexOfChild, indexOfParent), indexOfParent)
        ELSE {})

\* the indices at which BinaryHeap::reHeapUp reads or writes elements: the
\* operands of > are read only when indexOfChild > 0 holds (&& evaluates
\* its right operand only then), and a swap touches the same two indices
RECURSIVE reHeapUp_indices(_, _)
reHeapUp_indices(els, indexOfChild) ==
    LET indexOfParent == ParentIndex(indexOfChild)
    IN IF indexOfChild > 0
       THEN {indexOfParent, indexOfChild} \cup
            (IF Event_gt(els[indexOfParent], els[indexOfChild])
             THEN reHeapUp_indices(Swap(els, indexOfChild, indexOfParent), indexOfParent)
             ELSE {})
       ELSE {}

\* the indices at which BinaryHeap::reHeapDown reads or writes elements
RECURSIVE reHeapDown_indices(_, _, _)
reHeapDown_indices(els, elementCount, indexOfRoot) ==
    LET indexOfLeftChild == 2 * indexOfRoot + 1
        indexOfRightChild == 2 * indexOfRoot + 2
        min1 == IF indexOfLeftChild < elementCount
                   /\ Event_lt(els[indexOfLeftChild], els[indexOfRoot])
                THEN indexOfLeftChild ELSE indexOfRoot
        indexOfMinChild == IF indexOfRightChild < elementCount
                              /\ Event_lt(els[indexOfRightChild], els[min1])
                           THEN indexOfRightChild ELSE min1
    IN (IF indexOfLeftChild < elementCount THEN {indexOfLeftChild, indexOfRoot} ELSE {})
       \cup (IF indexOfRightChild < elementCount THEN {indexOfRightChild, min1} ELSE {})
       \cup (IF indexOfMinChild # indexOfRoot
             THEN {indexOfRoot, indexOfMinChild}
                  \cup reHeapDown_indices(Swap(els, indexOfRoot, indexOfMinChild),
                                          elementCount, indexOfMinChild)
             ELSE {})

\* the array accesses of BinaryHeap::insert, each the pair of the index and
\* the capacity of the array indexed: expandHeap copies elementCount
\* elements out of the old array into the new one, then insert writes
\* elements[elementCount] and calls reHeapUp(elementCount)
BinaryHeap_insert_accesses(h, newElement) ==
    LET g == IF h.elementCount = h.capacity THEN expandHeap(h) ELSE h
        els == [g.elements EXCEPT ![g.elementCount] = newElement]
    IN (IF h.elementCount = h.capacity
        THEN {<<i, h.capacity>> : i \in 0..(h.elementCount - 1)}
             \cup {<<i, g.capacity>> : i \in 0..(h.elementCount - 1)}
        ELSE {})
       \cup {<<g.elementCount, g.capacity>>}
       \cup {<<i, g.capacity>> : i \in reHeapUp_indices(els, g.elementCount)}

\* the array accesses of BinaryHeap::remove: none when it throws, else
\* elements[0] = elements[elementCount - 1] and those of reHeapDown(0)
BinaryHeap_remove_accesses(h) ==
    IF h.elementCount = 0
    THEN {}
    ELSE LET els == [h.elements EXCEPT ![0] = h.elements[h.elementCount - 1]]
             cnt == h.elementCount - 1
         IN {<<0, h.capacity>>, <<h.elementCount - 1, h.capacity>>}
            \cup (IF cnt > 0
                  THEN {<<i, h.capacity>> : i \in reHeapDown_indices(els, cnt, 0)}
                  ELSE {})

\* BinaryHeap::retrieve: exc is the EmptyDataCollectionException outcome
BinaryHeap_retrieve(h) ==
    IF h.elementCount = 0
    THEN [exc |-> TRUE, val |-> Event_default]
    ELSE [exc |-> FALSE, val |-> h.elements[0]]

\* a wrong remove: the count is decremented, the root left in place
BinaryHeap_remove_dropsLast(h) ==
    IF h.elementCount = 0
    THEN [exc |-> TRUE, heap |-> h]
    ELSE [exc |-> FALSE,
          heap |-> [elements |-> h.elements,
                    capacity |-> h.capacity,
                    elementCount |-> h.elementCount - 1]]

\* a wrong remove: the last element is moved to the root and left there
BinaryHeap_remove_noSift(h) ==
    IF h.elementCount = 0
    THEN [exc |-> TRUE, heap |-> h]
    ELSE [exc |-> FALSE,
          heap |-> [elements |-> [h.elements EXCEPT ![0] = h.elements[h.elementCount - 1]],
                    capacity |-> h.capacity,
                    elementCount |-> h.elementCount - 1]]

\* a wrong remove: on an empty heap it returns without throwing
BinaryHeap_remove_silent(h) ==
    IF h.elementCount = 0
    THEN [exc |-> FALSE, heap |-> h]
    ELSE LET els == [h.elements EXCEPT ![0] = h.elements[h.elementCount - 1]]
             cnt == h.elementCount - 1
         IN [exc |-> FALSE,
             heap |-> [elements |-> IF cnt > 0 THEN reHeapDown(els, cnt, 0) ELSE els,
                       capacity |-> h.capacity,
                       elementCount |-> cnt]]

\* BinaryHeap::remove
BinaryHeap_remove(h) ==
    IF h.elementCount = 0
    THEN [exc |-> TRUE, heap |-> h]
    ELSE LET els == [h.elements EXCEPT ![0] = h.elements[h.elementCount - 1]]
             cnt == h.elementCount - 1
         IN [exc |-> FALSE,
             heap |-> [elements |-> IF cnt > 0 THEN reHeapDown(els, cnt, 0) ELSE els,
                       capacity |-> h.capacity,
                       elementCount |-> cnt]]

(***************************************************************************)
(* PriorityQueue<Event>: its one member is the heap minheap.               *)
(***************************************************************************)
\* PriorityQueue::PriorityQueue
PriorityQueue_new == BinaryHeap_new(InitialCapacity)

\* PriorityQueue::isEmpty
PriorityQueue_isEmpty(minheap) == BinaryHeap_getElementCount(minheap) = 0

\* PriorityQueue::enqueue
PriorityQueue_enqueue(minheap, newElement) == BinaryHeap_insert(minheap, newElement)

\* PriorityQueue::dequeue
PriorityQueue_dequeue(minheap) ==
    IF PriorityQueue_isEmpty(minheap)
    THEN [exc |-> TRUE, heap |-> minheap]
    ELSE BinaryHeap_remove(minheap)

\* PriorityQueue::peek
PriorityQueue_peek(minheap) ==
    IF PriorityQueue_isEmpty(minheap)
    THEN [exc |-> TRUE, val |-> Event_default]
    ELSE BinaryHeap_retrieve(minheap)

(***************************************************************************)
(* Queue<Event>: a queue is [size, head, tail, nodes]; nodes maps the      *)
(* address of every allocated Node to its [data, next].                    *)
(***************************************************************************)
\* Queue::Queue
Queue_new == [size |-> 0, head |-> NULL, tail |-> NULL, nodes |-> << >>]

\* Queue::isEmpty
Queue_isEmpty(q) == q.size = 0

\* new Node(newElement): an address not in use
NewNode(q) ==
    CHOOSE n \in 1..(Cardinality(DOMAIN q.nodes) + 1) :
        /\ n \notin DOMAIN q.nodes
        /\ \A m \in 1..(n - 1) : m \in DOMAIN q.nodes

\* a wrong enqueue: the new node is linked in at the head
Queue_enqueue_front(q, newElement) ==
    LET myNode == NewNode(q)
        allocated == q.nodes @@ (myNode :> [data |-> newElement, next |-> q.head])
    IN [size |-> q.size + 1, head |-> myNode,
        tail |-> IF Queue_isEmpty(q) THEN myNode ELSE q.tail,
        nodes |-> allocated]

\* Queue::enqueue (always returns true)
Queue_enqueue(q, newElement) ==
    LET myNode == NewNode(q)
        allocated == q.nodes @@ (myNode :> [data |-> newElement, next |-> NULL])
    IN IF Queue_isEmpty(q)
       THEN [size |-> q.size + 1, head |-> myNode, tail |-> myNode, nodes |-> allocated]
       ELSE [size |-> q.size + 1, head |-> q.head, tail |-> myNode,
             nodes |-> [allocated EXCEPT ![q.tail].next = myNode]]

\* a wrong dequeue: tail is left as it was when the last node is deleted
Queue_dequeue_keepsTail(q) ==
    IF Queue_isEmpty(q)
    THEN [exc |-> TRUE, queue |-> q]
    ELSE LET temp == q.head
             newHead == q.nodes[q.head].next
             freed == [n \in (DOMAIN q.nodes) \ {temp} |-> q.nodes[n]]
         IN [exc |-> FALSE,
             queue |-> [size |-> q.size - 1,
                        head |-> newHead,
                        tail |-> q.tail,
                        nodes |-> freed]]

\* Queue::dequeue
Queue_dequeue(q) ==
    IF Queue_isEmpty(q)
    THEN [exc |-> TRUE, queue |-> q]
    ELSE LET temp == q.head
             newHead == q.nodes[q.head].next
             freed == [n \in (DOMAIN q.nodes) \ {temp} |-> q.nodes[n]]
         IN [exc |-> FALSE,
             queue |-> [size |-> q.size - 1,
                        head |-> newHead,
                        tail |-> IF q.size - 1 = 0 THEN NULL ELSE q.tail,
                        nodes |-> freed]]

\* a wrong peek: the element at the back of the queue is returned
Queue_peek_tail(q) ==
    IF Queue_isEmpty(q)
    THEN [exc |-> TRUE, val |-> Event_default]
    ELSE [exc |-> FALSE, val |-> q.nodes[q.tail].data]

\* Queue::peek
Queue_peek(q) ==
    IF Queue_isEmpty(q)
    THEN [exc |-> TRUE, val |-> Event_default]
    ELSE [exc |-> FALSE, val |-> q.nodes[q.head].data]

(***************************************************************************)
(* State                                                                   *)
(***************************************************************************)
VARIABLES
    pc,                  \* position in main, or the phase of a driver
    input,               \* the pairs read from standard input so far
    output,              \* the events reported by outputEventProcessing
    eventPriorityQueue,  \* PriorityQueue<Event> (its minheap)
    bankLine,            \* Queue<Event>
    tellerAvailable,
    simulationTime,
    customerCount,
    cumulativeWaitTime,
    averageWaitTime,     \* the quotient main computes after the loop
    served,              \* the customers whose service has begun, in order
    lastOp,              \* the container method a driver called last
    outcome,             \* how that call ended: "ok" or the exception
    result,              \* what that call returned (peek, retrieve)
    peekRun,             \* successful peek/retrieve calls in a row, up to 2
    inserted,            \* the elements a driver put in, in call order
    removed,             \* the elements a driver took out, in call order
    lhs,                 \* the operands of the comparison driver
    rhs,
    cmp,                 \* the comparison results
    calls,               \* the setter calls made on lhs by the Event driver
    tieRun               \* the statistics of the run before main was run again

obsVars == <<lastOp, outcome, result, peekRun>>
histVars == <<inserted, removed>>
cmpVars == <<lhs, rhs, cmp, calls, tieRun>>
statVars == <<averageWaitTime, served>>
vars == <<pc, input, output, eventPriorityQueue, bankLine, tellerAvailable,
          simulationTime, customerCount, cumulativeWaitTime, statVars, lastOp, outcome,
          result, peekRun, inserted, removed, lhs, rhs, cmp, calls, tieRun>>

\* float averageWaitTime before line 173 of BankSimApp.cpp is reached
NotComputed == [kind |-> "none", num |-> 0, den |-> 1]

\* static_cast<float>(cumulativeWaitTime) / customerCount: the quotient
\* num / den, or, the divisor 0, what a float division by zero yields
\* (0.0f / 0 is a NaN whose sign depends on the build)
FloatQuotients(num, den) ==
    IF den # 0
    THEN {[kind |-> "number", num |-> num, den |-> den]}
    ELSE IF num = 0
         THEN {[kind |-> "NaN", num |-> 0, den |-> 0], [kind |-> "-NaN", num |-> 0, den |-> 0]}
         ELSE {[kind |-> IF num > 0 THEN "inf" ELSE "-inf", num |-> num, den |-> 0]}

\* the customer of an arrival event, as its service begins at time start
Service(customer, start, waited) ==
    [arrival |-> Event_getTime(customer), length |-> Event_getLength(customer),
     start |-> start, waited |-> waited]

\* the state of main before the first statement that reads input
InitMain ==
    /\ input = << >>
    /\ output = << >>
    /\ eventPriorityQueue = PriorityQueue_new
    /\ bankLine = Queue_new
    /\ tellerAvailable = TRUE
    /\ simulationTime = 0
    /\ customerCount = 0
    /\ cumulativeWaitTime = 0
    /\ averageWaitTime = NotComputed
    /\ served = << >>

InitObs ==
    /\ lastOp = "none"
    /\ outcome = "ok"
    /\ result = Event_default
    /\ peekRun = 0

InitHist ==
    /\ inserted = << >>
    /\ removed = << >>

\* no comparison evaluated yet
NoComparison == [done |-> FALSE, lt |-> FALSE, le |-> FALSE, gt |-> FALSE]

\* main has run once only: there are no statistics of an earlier run
NoFirstRun == [rerun |-> FALSE, cumulativeWaitTime |-> 0, customerCount |-> 0,
               served |-> << >>, output |-> << >>]

InitCmp ==
    /\ lhs = Event_default
    /\ rhs = Event_default
    /\ cmp = NoComparison
    /\ calls = 0
    /\ tieRun = NoFirstRun

(***************************************************************************)
(* main: the simulation                                                    *)
(***************************************************************************)
Init ==
    /\ pc = "read"
    /\ InitMain /\ InitObs /\ InitHist /\ InitCmp

\* while (cin >> arriveTime >> processTime) { ... }: one pair read
ReadCustomer ==
    /\ pc = "read"
    /\ Len(input) < MaxCustomers
    /\ \E arriveTime \in 0..MaxTime, processTime \in 0..MaxLen :
          LET newArrivalEvent == Event_type_time_length(ARRIVAL, arriveTime, processTime)
          IN /\ input' = Append(input, <<arriveTime, processTime>>)
             /\ eventPriorityQueue' = PriorityQueue_enqueue(eventPriorityQueue, newArrivalEvent)
             /\ customerCount' = customerCount + 1
    /\ UNCHANGED <<pc, output, bankLine, tellerAvailable, simulationTime,
                   cumulativeWaitTime, statVars, obsVars, histVars, cmpVars>>

\* end of input: the read loop is left
EndOfInput ==
    /\ pc = "read"
    /\ pc' = "loop"
    /\ UNCHANGED <<input, output, eventPriorityQueue, bankLine, tellerAvailable,
                   simulationTime, customerCount, cumulativeWaitTime, statVars,
                   obsVars, histVars, cmpVars>>

\* an uncaught EmptyDataCollectionException ends the program
Abort ==
    /\ pc' = "aborted"
    /\ outcome' = EmptyDataCollectionException

\* a wrong processArrival: the departure is scheduled at the customer's
\* service length, the clock not added
processArrival_departsAtLength(newEvent, simTime) ==
    LET dq == PriorityQueue_dequeue(eventPriorityQueue)
    IN /\ ~dq.exc
       /\ UNCHANGED <<pc, outcome>>
       /\ IF Queue_isEmpty(bankLine) /\ tellerAvailable
          THEN /\ eventPriorityQueue' =
                     PriorityQueue_enqueue(dq.heap,
                         Event_type_time(DEPARTURE, Event_getLength(newEvent)))
               /\ tellerAvailable' = FALSE
               /\ served' = Append(served, Service(newEvent, simTime, FALSE))
               /\ UNCHANGED bankLine
          ELSE /\ bankLine' = Queue_enqueue(bankLine, newEvent)
               /\ eventPriorityQueue' = dq.heap
               /\ UNCHANGED <<tellerAvailable, served>>

\* a wrong processArrival: the customer put on the line is a new Event of
\* the arrival's time, the service length not carried over
processArrival_lineLosesLength(newEvent, simTime) ==
    LET dq == PriorityQueue_dequeue(eventPriorityQueue)
    IN /\ ~dq.exc
       /\ UNCHANGED <<pc, outcome>>
       /\ IF Queue_isEmpty(bankLine) /\ tellerAvailable
          THEN /\ eventPriorityQueue' =
                     PriorityQueue_enqueue(dq.heap,
                         Event_type_time(DEPARTURE, simTime + Event_getLength(newEvent)))
               /\ tellerAvailable' = FALSE
               /\ served' = Append(served, Service(newEvent, simTime, FALSE))
               /\ UNCHANGED bankLine
          ELSE /\ bankLine' = Queue_enqueue(bankLine,
                                  Event_type_time(ARRIVAL, Event_getTime(newEvent)))
               /\ eventPriorityQueue' = dq.heap
               /\ UNCHANGED <<tellerAvailable, served>>

\* a wrong processArrival: a customer who finds the line empty is served at
\* once, whether or not the teller is available
processArrival_ignoresTeller(newEvent, simTime) ==
    LET dq == PriorityQueue_dequeue(eventPriorityQueue)
    IN /\ ~dq.exc
       /\ UNCHANGED <<pc, outcome>>
       /\ IF Queue_isEmpty(bankLine)
          THEN /\ eventPriorityQueue' =
                     PriorityQueue_enqueue(dq.heap,
                         Event_type_time(DEPARTURE, simTime + Event_getLength(newEvent)))
               /\ tellerAvailable' = FALSE
               /\ served' = Append(served, Service(newEvent, simTime, FALSE))
               /\ UNCHANGED bankLine
          ELSE /\ bankLine' = Queue_enqueue(bankLine, newEvent)
               /\ eventPriorityQueue' = dq.heap
               /\ UNCHANGED <<tellerAvailable, served>>

\* processArrival; simTime is simulationTime, already set by main
processArrival(newEvent, simTime) ==
    LET dq == PriorityQueue_dequeue(eventPriorityQueue)
    IN IF dq.exc
       THEN /\ Abort
            /\ UNCHANGED <<eventPriorityQueue, bankLine, tellerAvailable, served>>
       ELSE /\ UNCHANGED <<pc, outcome>>
            /\ IF Queue_isEmpty(bankLine) /\ tellerAvailable
               THEN LET departureTime == simTime + Event_getLength(newEvent)
                        newDepartureEvent == Event_type_time(DEPARTURE, departureTime)
                    IN /\ eventPriorityQueue' = PriorityQueue_enqueue(dq.heap, newDepartureEvent)
                       /\ tellerAvailable' = FALSE
                       /\ served' = Append(served, Service(newEvent, simTime, FALSE))
                       /\ UNCHANGED bankLine
               ELSE /\ bankLine' = Queue_enqueue(bankLine, newEvent)
                    /\ eventPriorityQueue' = dq.heap
                    /\ UNCHANGED <<tellerAvailable, served>>

\* a wrong processDeparture: the next customer is taken off the line without
\* the line being tested for emptiness
processDeparture_noLineCheck(newEvent, simTime) ==
    LET dq == PriorityQueue_dequeue(eventPriorityQueue)
        pk == Queue_peek(bankLine)
        customer == pk.val
        dl == Queue_dequeue(bankLine)
    IN IF dq.exc \/ pk.exc \/ dl.exc
       THEN /\ Abort
            /\ eventPriorityQueue' = dq.heap
            /\ UNCHANGED <<bankLine, tellerAvailable, cumulativeWaitTime, served>>
       ELSE /\ bankLine' = dl.queue
            /\ cumulativeWaitTime' = cumulativeWaitTime + (simTime - Event_getTime(customer))
            /\ served' = Append(served, Service(customer, simTime, TRUE))
            /\ eventPriorityQueue' =
                  PriorityQueue_enqueue(dq.heap,
                      Event_type_time(DEPARTURE, simTime + Event_getLength(customer)))
            /\ UNCHANGED <<pc, outcome, tellerAvailable>>

\* a wrong processDeparture: the departure of the next customer is scheduled
\* at that customer's service length, the clock not added
processDeparture_departsAtLength(newEvent, simTime) ==
    LET dq == PriorityQueue_dequeue(eventPriorityQueue)
    IN /\ ~dq.exc
       /\ UNCHANGED <<pc, outcome, tellerAvailable>>
       /\ IF ~Queue_isEmpty(bankLine)
          THEN LET customer == Queue_peek(bankLine).val
               IN /\ bankLine' = Queue_dequeue(bankLine).queue
                  /\ cumulativeWaitTime' = cumulativeWaitTime + (simTime - Event_getTime(customer))
                  /\ served' = Append(served, Service(customer, simTime, TRUE))
                  /\ eventPriorityQueue' =
                        PriorityQueue_enqueue(dq.heap,
                            Event_type_time(DEPARTURE, Event_getLength(customer)))
          ELSE /\ eventPriorityQueue' = dq.heap
               /\ UNCHANGED <<bankLine, cumulativeWaitTime, served>>

\* a wrong processDeparture: the teller is marked available also when the
\* next customer is taken off the line
processDeparture_freesTeller(newEvent, simTime) ==
    LET dq == PriorityQueue_dequeue(eventPriorityQueue)
    IN /\ ~dq.exc
       /\ UNCHANGED <<pc, outcome>>
       /\ tellerAvailable' = TRUE
       /\ IF ~Queue_isEmpty(bankLine)
          THEN LET customer == Queue_peek(bankLine).val
               IN /\ bankLine' = Queue_dequeue(bankLine).queue
                  /\ cumulativeWaitTime' = cumulativeWaitTime + (simTime - Event_getTime(customer))
                  /\ served' = Append(served, Service(customer, simTime, TRUE))
                  /\ eventPriorityQueue' =
                        PriorityQueue_enqueue(dq.heap,
                            Event_type_time(DEPARTURE, simTime + Event_getLength(customer)))
          ELSE /\ eventPriorityQueue' = dq.heap
               /\ UNCHANGED <<bankLine, cumulativeWaitTime, served>>

\* a wrong processDeparture: the time since the start of the simulation is
\* added to the cumulative wait when nobody is on the line
processDeparture_countsIdle(newEvent, simTime) ==
    LET dq == PriorityQueue_dequeue(eventPriorityQueue)
    IN /\ ~dq.exc
       /\ UNCHANGED <<pc, outcome>>
       /\ IF ~Queue_isEmpty(bankLine)
          THEN LET customer == Queue_peek(bankLine).val
               IN /\ bankLine' = Queue_dequeue(bankLine).queue
                  /\ cumulativeWaitTime' = cumulativeWaitTime + (simTime - Event_getTime(customer))
                  /\ served' = Append(served, Service(customer, simTime, TRUE))
                  /\ eventPriorityQueue' =
                        PriorityQueue_enqueue(dq.heap,
                            Event_type_time(DEPARTURE, simTime + Event_getLength(customer)))
                  /\ UNCHANGED tellerAvailable
          ELSE /\ eventPriorityQueue' = dq.heap
               /\ tellerAvailable' = TRUE
               /\ cumulativeWaitTime' = cumulativeWaitTime + simTime
               /\ UNCHANGED <<bankLine, served>>

\* a wrong processDeparture: the subtraction of the wait is reversed
processDeparture_reversedWait(newEvent, simTime) ==
    LET dq == PriorityQueue_dequeue(eventPriorityQueue)
    IN /\ ~dq.exc
       /\ UNCHANGED <<pc, outcome, tellerAvailable>>
       /\ IF ~Queue_isEmpty(bankLine)
          THEN LET customer == Queue_peek(bankLine).val
               IN /\ bankLine' = Queue_dequeue(bankLine).queue
                  /\ cumulativeWaitTime' = cumulativeWaitTime + (Event_getTime(customer) - simTime)
                  /\ served' = Append(served, Service(customer, simTime, TRUE))
                  /\ eventPriorityQueue' =
                        PriorityQueue_enqueue(dq.heap,
                            Event_type_time(DEPARTURE, simTime + Event_getLength(customer)))
          ELSE /\ eventPriorityQueue' = dq.heap
               /\ UNCHANGED <<bankLine, cumulativeWaitTime, served>>

\* a wrong processDeparture: the wait is taken to be the time of the
\* departure, the customer's arrival time not subtracted
processDeparture_waitFromZero(newEvent, simTime) ==
    LET dq == PriorityQueue_dequeue(eventPriorityQueue)
    IN /\ ~dq.exc
       /\ UNCHANGED <<pc, outcome, tellerAvailable>>
       /\ IF ~Queue_isEmpty(bankLine)
          THEN LET customer == Queue_peek(bankLine).val
               IN /\ bankLine' = Queue_dequeue(bankLine).queue
                  /\ cumulativeWaitTime' = cumulativeWaitTime + simTime
                  /\ served' = Append(served, Service(customer, simTime, TRUE))
                  /\ eventPriorityQueue' =
                        PriorityQueue_enqueue(dq.heap,
                            Event_type_time(DEPARTURE, simTime + Event_getLength(customer)))
          ELSE /\ eventPriorityQueue' = dq.heap
               /\ UNCHANGED <<bankLine, cumulativeWaitTime, served>>

\* a wrong processDeparture: the teller is not marked available
processDeparture_keepsBusy(newEvent, simTime) ==
    LET dq == PriorityQueue_dequeue(eventPriorityQueue)
    IN /\ UNCHANGED <<pc, outcome, tellerAvailable>>
       /\ IF ~Queue_isEmpty(bankLine)
          THEN LET customer == Queue_peek(bankLine).val
               IN /\ bankLine' = Queue_dequeue(bankLine).queue
                  /\ cumulativeWaitTime' = cumulativeWaitTime + (simTime - Event_getTime(customer))
                  /\ served' = Append(served, Service(customer, simTime, TRUE))
                  /\ eventPriorityQueue' =
                        PriorityQueue_enqueue(dq.heap,
                            Event_type_time(DEPARTURE, simTime + Event_getLength(customer)))
          ELSE /\ eventPriorityQueue' = dq.heap
               /\ UNCHANGED <<bankLine, cumulativeWaitTime, served>>

\* a wrong processDeparture: the waiting customer is taken off the line but
\* no departure is scheduled for it
processDeparture_noSchedule(newEvent, simTime) ==
    LET dq == PriorityQueue_dequeue(eventPriorityQueue)
    IN /\ UNCHANGED <<pc, outcome>>
       /\ eventPriorityQueue' = dq.heap
       /\ IF ~Queue_isEmpty(bankLine)
          THEN LET customer == Queue_peek(bankLine).val
               IN /\ bankLine' = Queue_dequeue(bankLine).queue
                  /\ cumulativeWaitTime' = cumulativeWaitTime + (simTime - Event_getTime(customer))
                  /\ served' = Append(served, Service(customer, simTime, TRUE))
                  /\ UNCHANGED tellerAvailable
          ELSE /\ tellerAvailable' = TRUE
               /\ UNCHANGED <<bankLine, cumulativeWaitTime, served>>

\* processDeparture
processDeparture(newEvent, simTime) ==
    LET dq == PriorityQueue_dequeue(eventPriorityQueue)
    IN IF dq.exc
       THEN /\ Abort
            /\ UNCHANGED <<eventPriorityQueue, bankLine, tellerAvailable, cumulativeWaitTime,
                           served>>
       ELSE IF ~Queue_isEmpty(bankLine)
            THEN LET pk == Queue_peek(bankLine)
                     customer == pk.val
                     dl == Queue_dequeue(bankLine)
                     waitTime == simTime - Event_getTime(customer)
                     departureTime == simTime + Event_getLength(customer)
                     newDepartureEvent == Event_type_time(DEPARTURE, departureTime)
                 IN IF pk.exc \/ dl.exc
                    THEN /\ Abort
                         /\ eventPriorityQueue' = dq.heap
                         /\ UNCHANGED <<bankLine, tellerAvailable, cumulativeWaitTime, served>>
                    ELSE /\ bankLine' = dl.queue
                         /\ cumulativeWaitTime' = cumulativeWaitTime + waitTime
                         /\ served' = Append(served, Service(customer, simTime, TRUE))
                         /\ eventPriorityQueue' = PriorityQueue_enqueue(dq.heap, newDepartureEvent)
                         /\ UNCHANGED <<pc, outcome, tellerAvailable>>
            ELSE /\ tellerAvailable' = TRUE
                 /\ eventPriorityQueue' = dq.heap
                 /\ UNCHANGED <<pc, outcome, bankLine, cumulativeWaitTime, served>>

\* outputEventProcessing: the kind and the time of the event
outputEventProcessing(event) == [type |-> Event_getType(event), time |-> Event_getTime(event)]

\* one iteration of while (!eventPriorityQueue.isEmpty()), the event an arrival
LoopArrival ==
    /\ pc = "loop"
    /\ ~PriorityQueue_isEmpty(eventPriorityQueue)
    /\ LET newEvent == PriorityQueue_peek(eventPriorityQueue).val
       IN /\ Event_isArrival(newEvent)
          /\ simulationTime' = Event_getTime(newEvent)
          /\ output' = Append(output, outputEventProcessing(newEvent))
          /\ processArrival(newEvent, Event_getTime(newEvent))
    /\ UNCHANGED <<input, customerCount, cumulativeWaitTime, averageWaitTime,
                   lastOp, result, peekRun, histVars, cmpVars>>

\* one iteration of while (!eventPriorityQueue.isEmpty()), the event a departure
LoopDeparture ==
    /\ pc = "loop"
    /\ ~PriorityQueue_isEmpty(eventPriorityQueue)
    /\ LET newEvent == PriorityQueue_peek(eventPriorityQueue).val
       IN /\ ~Event_isArrival(newEvent)
          /\ simulationTime' = Event_getTime(newEvent)
          /\ output' = Append(output, outputEventProcessing(newEvent))
          /\ processDeparture(newEvent, Event_getTime(newEvent))
    /\ UNCHANGED <<input, customerCount, averageWaitTime, lastOp, result, peekRun,
                   histVars, cmpVars>>

\* a wrong loop condition: the loop is left when the waiting line is empty
LoopExit_lineEmpty ==
    /\ pc = "loop"
    /\ Queue_isEmpty(bankLine)
    /\ pc' = "done"
    /\ averageWaitTime' \in FloatQuotients(cumulativeWaitTime, customerCount)
    /\ UNCHANGED <<input, output, eventPriorityQueue, bankLine, tellerAvailable,
                   simulationTime, customerCount, cumulativeWaitTime, served,
                   obsVars, histVars, cmpVars>>

\* the loop condition fails: the statistics are printed and main returns
LoopExit ==
    /\ pc = "loop"
    /\ PriorityQueue_isEmpty(eventPriorityQueue)
    /\ pc' = "done"
    /\ averageWaitTime' \in FloatQuotients(cumulativeWaitTime, customerCount)
    /\ UNCHANGED <<input, output, eventPriorityQueue, bankLine, tellerAvailable,
                   simulationTime, customerCount, cumulativeWaitTime, served,
                   obsVars, histVars, cmpVars>>

Next == ReadCustomer \/ EndOfInput \/ LoopArrival \/ LoopDeparture \/ LoopExit

Spec == Init /\ [][Next]_vars

\* a sequential program takes its next step as long as it has one
FairSpec == Init /\ [][Next]_vars /\ WF_vars(Next)

(***************************************************************************)
(* The end-to-end scenarios: main fed with pairs taken from the inputs of  *)
(* the documented scenarios instead of pairs within MaxTime and MaxLen.    *)
(***************************************************************************)
\* the <<arrival time, service length>> pairs of scenarios 1, 2 and 3
ScenarioPairs == {<<0, 5>>, <<0, 10>>, <<2, 3>>, <<0, 1>>, <<0, 2>>, <<0, 3>>}

InitScenarios ==
    /\ pc = "script"
    /\ InitMain /\ InitObs /\ InitHist /\ InitCmp

\* while (cin >> arriveTime >> processTime) { ... }: one scenario pair read
ReadScripted ==
    /\ pc = "script"
    /\ Len(input) < MaxCustomers
    /\ \E pair \in ScenarioPairs :
          LET newArrivalEvent == Event_type_time_length(ARRIVAL, pair[1], pair[2])
          IN /\ input' = Append(input, pair)
             /\ eventPriorityQueue' = PriorityQueue_enqueue(eventPriorityQueue, newArrivalEvent)
             /\ customerCount' = customerCount + 1
    /\ UNCHANGED <<pc, output, bankLine, tellerAvailable, simulationTime,
                   cumulativeWaitTime, statVars, obsVars, histVars, cmpVars>>

\* end of the scripted input: the read loop is left
EndOfScript ==
    /\ pc = "script"
    /\ pc' = "loop"
    /\ UNCHANGED <<input, output, eventPriorityQueue, bankLine, tellerAvailable,
                   simulationTime, customerCount, cumulativeWaitTime, statVars,
                   obsVars, histVars, cmpVars>>

NextScenarios == ReadScripted \/ EndOfScript \/ LoopArrival \/ LoopDeparture \/ LoopExit

Scenarios == InitScenarios /\ [][NextScenarios]_vars

(***************************************************************************)
(* Container drivers: every public method of BinaryHeap, PriorityQueue and *)
(* Queue called in any order on one object, with any Event as argument.    *)
(* pc = "heap": a BinaryHeap / PriorityQueue; pc = "queue": a Queue;       *)
(* pc = "fill", then "drain": inserts, then retrieve and remove until      *)
(* empty.                                                                  *)
(***************************************************************************)
DriverEvents ==
    { Event_type_time_length(t, tm, 0) : t \in EventType, tm \in 0..MaxDriverTime }

InitContainers ==
    /\ pc \in {"heap", "queue", "fill"}
    /\ InitMain /\ InitObs /\ InitHist /\ InitCmp

driverFrame == <<pc, input, output, tellerAvailable, simulationTime, customerCount,
                 cumulativeWaitTime, statVars, cmpVars>>

\* BinaryHeap::insert called
HeapInsert ==
    /\ pc = "heap"
    /\ BinaryHeap_getElementCount(eventPriorityQueue) < MaxHeap
    /\ \E v \in DriverEvents :
          eventPriorityQueue' = BinaryHeap_insert(eventPriorityQueue, v)
    /\ lastOp' = "BinaryHeap::insert"
    /\ outcome' = "ok"
    /\ peekRun' = 0
    /\ UNCHANGED <<result, bankLine, histVars, driverFrame>>

\* a wrong retrieve: the element handed out is taken off the heap
HeapRetrieve_removes ==
    /\ pc = "heap"
    /\ LET r == BinaryHeap_retrieve(eventPriorityQueue)
       IN /\ outcome' = IF r.exc THEN EmptyDataCollectionException ELSE "ok"
          /\ result' = IF r.exc THEN result ELSE r.val
          /\ peekRun' = IF r.exc THEN 0 ELSE IF peekRun < 2 THEN peekRun + 1 ELSE peekRun
    /\ eventPriorityQueue' = BinaryHeap_remove(eventPriorityQueue).heap
    /\ lastOp' = "BinaryHeap::retrieve"
    /\ UNCHANGED <<bankLine, histVars, driverFrame>>

\* BinaryHeap::retrieve called (a const method: the heap is left as it is)
HeapRetrieve ==
    /\ pc = "heap"
    /\ LET r == BinaryHeap_retrieve(eventPriorityQueue)
       IN /\ outcome' = IF r.exc THEN EmptyDataCollectionException ELSE "ok"
          /\ result' = IF r.exc THEN result ELSE r.val
          /\ peekRun' = IF r.exc THEN 0 ELSE IF peekRun < 2 THEN peekRun + 1 ELSE peekRun
    /\ lastOp' = "BinaryHeap::retrieve"
    /\ UNCHANGED <<eventPriorityQueue, bankLine, histVars, driverFrame>>

\* BinaryHeap::remove called
HeapRemove ==
    /\ pc = "heap"
    /\ LET r == BinaryHeap_remove(eventPriorityQueue)
       IN /\ outcome' = IF r.exc THEN EmptyDataCollectionException ELSE "ok"
          /\ eventPriorityQueue' = r.heap
    /\ lastOp' = "BinaryHeap::remove"
    /\ peekRun' = 0
    /\ UNCHANGED <<result, bankLine, histVars, driverFrame>>

\* PriorityQueue::enqueue called
PQEnqueue ==
    /\ pc = "heap"
    /\ BinaryHeap_getElementCount(eventPriorityQueue) < MaxHeap
    /\ \E v \in DriverEvents :
          eventPriorityQueue' = PriorityQueue_enqueue(eventPriorityQueue, v)
    /\ lastOp' = "PriorityQueue::enqueue"
    /\ outcome' = "ok"
    /\ peekRun' = 0
    /\ UNCHANGED <<result, bankLine, histVars, driverFrame>>

\* PriorityQueue::dequeue called
PQDequeue ==
    /\ pc = "heap"
    /\ LET r == PriorityQueue_dequeue(eventPriorityQueue)
       IN /\ outcome' = IF r.exc THEN EmptyDataCollectionException ELSE "ok"
          /\ eventPriorityQueue' = r.heap
    /\ lastOp' = "PriorityQueue::dequeue"
    /\ peekRun' = 0
    /\ UNCHANGED <<result, bankLine, histVars, driverFrame>>

\* PriorityQueue::peek called (a const method)
PQPeek ==
    /\ pc = "heap"
    /\ LET r == PriorityQueue_peek(eventPriorityQueue)
       IN /\ outcome' = IF r.exc THEN EmptyDataCollectionException ELSE "ok"
          /\ result' = IF r.exc THEN result ELSE r.val
          /\ peekRun' = IF r.exc THEN 0 ELSE IF peekRun < 2 THEN peekRun + 1 ELSE peekRun
    /\ lastOp' = "PriorityQueue::peek"
    /\ UNCHANGED <<eventPriorityQueue, bankLine, histVars, driverFrame>>

\* Queue::enqueue called
QueueEnqueue ==
    /\ pc = "queue"
    /\ Len(inserted) < MaxEnq
    /\ \E v \in DriverEvents :
          /\ bankLine' = Queue_enqueue(bankLine, v)
          /\ inserted' = Append(inserted, v)
    /\ lastOp' = "Queue::enqueue"
    /\ outcome' = "ok"
    /\ peekRun' = 0
    /\ UNCHANGED <<result, removed, eventPriorityQueue, driverFrame>>

\* Queue::dequeue called; removed records the data of the node it deletes
QueueDequeue ==
    /\ pc = "queue"
    /\ LET r == Queue_dequeue(bankLine)
       IN /\ outcome' = IF r.exc THEN EmptyDataCollectionException ELSE "ok"
          /\ bankLine' = r.queue
          /\ removed' = IF r.exc THEN removed
                        ELSE Append(removed, bankLine.nodes[bankLine.head].data)
    /\ lastOp' = "Queue::dequeue"
    /\ peekRun' = 0
    /\ UNCHANGED <<result, inserted, eventPriorityQueue, driverFrame>>

\* Queue::peek called (a const method)
QueuePeek ==
    /\ pc = "queue"
    /\ LET r == Queue_peek(bankLine)
       IN /\ outcome' = IF r.exc THEN EmptyDataCollectionException ELSE "ok"
          /\ result' = IF r.exc THEN result ELSE r.val
          /\ peekRun' = IF r.exc THEN 0 ELSE IF peekRun < 2 THEN peekRun + 1 ELSE peekRun
    /\ lastOp' = "Queue::peek"
    /\ UNCHANGED <<bankLine, histVars, eventPriorityQueue, driverFrame>>

\* fill phase: one more insert
Fill ==
    /\ pc = "fill"
    /\ Len(inserted) < MaxHeap
    /\ \E v \in DriverEvents :
          /\ eventPriorityQueue' = BinaryHeap_insert(eventPriorityQueue, v)
          /\ inserted' = Append(inserted, v)
    /\ lastOp' = "BinaryHeap::insert"
    /\ outcome' = "ok"
    /\ peekRun' = 0
    /\ UNCHANGED <<result, removed, bankLine, driverFrame>>

\* the inserts are over
StartDrain ==
    /\ pc = "fill"
    /\ pc' = "drain"
    /\ UNCHANGED <<input, output, eventPriorityQueue, bankLine, tellerAvailable,
                   simulationTime, customerCount, cumulativeWaitTime, statVars,
                   obsVars, histVars, cmpVars>>

\* drain phase: retrieve, then remove
Drain ==
    /\ pc = "drain"
    /\ BinaryHeap_getElementCount(eventPriorityQueue) > 0
    /\ LET r == BinaryHeap_retrieve(eventPriorityQueue)
           d == BinaryHeap_remove(eventPriorityQueue)
       IN /\ result' = r.val
          /\ removed' = Append(removed, r.val)
          /\ eventPriorityQueue' = d.heap
          /\ outcome' = IF r.exc \/ d.exc THEN EmptyDataCollectionException ELSE "ok"
    /\ lastOp' = "BinaryHeap::remove"
    /\ peekRun' = 0
    /\ UNCHANGED <<inserted, bankLine, driverFrame>>

NextContainers ==
    \/ HeapInsert \/ HeapRetrieve \/ HeapRemove
    \/ PQEnqueue \/ PQDequeue \/ PQPeek
    \/ QueueEnqueue \/ QueueDequeue \/ QueuePeek
    \/ Fill \/ StartDrain \/ Drain

Containers == InitContainers /\ [][NextContainers]_vars

(***************************************************************************)
(* Comparison driver: the three comparison operators of Event applied to   *)
(* any two events.                                                         *)
(***************************************************************************)
Events ==
    { Event_type_time_length(t, tm, ln) :
        t \in EventType, tm \in 0..MaxTime, ln \in 0..MaxLen }

InitCompare ==
    /\ pc = "compare"
    /\ InitMain /\ InitObs /\ InitHist
    /\ lhs \in Events
    /\ rhs \in Events
    /\ cmp = NoComparison
    /\ calls = 0
    /\ tieRun = NoFirstRun

\* lhs < rhs, lhs <= rhs and lhs > rhs evaluated
Compare ==
    /\ pc = "compare"
    /\ ~cmp.done
    /\ cmp' = [done |-> TRUE, lt |-> Event_lt(lhs, rhs), le |-> Event_le(lhs, rhs),
               gt |-> Event_gt(lhs, rhs)]
    /\ UNCHANGED <<pc, input, output, eventPriorityQueue, bankLine, tellerAvailable,
                   simulationTime, customerCount, cumulativeWaitTime, statVars,
                   obsVars, histVars, lhs, rhs, calls, tieRun>>

NextCompare == Compare

Comparisons == InitCompare /\ [][NextCompare]_vars

(***************************************************************************)
(* Event driver: an Event built by any of the three constructors, then     *)
(* setType, setTime and setLength called on it in any order.               *)
(***************************************************************************)
\* what the three constructors produce
EventObjects ==
    {Event_default}
    \cup { Event_type_time(t, tm) : t \in EventType, tm \in 0..MaxTime }
    \cup Events

InitEventOps ==
    /\ pc = "event"
    /\ InitMain /\ InitObs /\ InitHist
    /\ lhs \in EventObjects
    /\ rhs = Event_default
    /\ cmp = NoComparison
    /\ calls = 0
    /\ tieRun = NoFirstRun

eventFrame == <<pc, input, output, eventPriorityQueue, bankLine, tellerAvailable,
                simulationTime, customerCount, cumulativeWaitTime, statVars,
                outcome, result, peekRun, histVars, rhs, cmp, tieRun>>

\* Event::setType called
SetType ==
    /\ pc = "event"
    /\ calls < MaxCalls
    /\ \E aType \in EventType : lhs' = Event_setType(lhs, aType)
    /\ lastOp' = "Event::setType"
    /\ calls' = calls + 1
    /\ UNCHANGED eventFrame

\* Event::setTime called
SetTime ==
    /\ pc = "event"
    /\ calls < MaxCalls
    /\ \E aTime \in 0..MaxTime : lhs' = Event_setTime(lhs, aTime)
    /\ lastOp' = "Event::setTime"
    /\ calls' = calls + 1
    /\ UNCHANGED eventFrame

\* Event::setLength called
SetLength ==
    /\ pc = "event"
    /\ calls < MaxCalls
    /\ \E aLength \in 0..MaxLen : lhs' = Event_setLength(lhs, aLength)
    /\ lastOp' = "Event::setLength"
    /\ calls' = calls + 1
    /\ UNCHANGED eventFrame

NextEventOps == SetType \/ SetTime \/ SetLength

EventOps == InitEventOps /\ [][NextEventOps]_vars

(***************************************************************************)
(* Capacity driver: a BinaryHeap constructed with any capacity from 0 to   *)
(* MaxCapacity, then insert and remove called in any order.                *)
(***************************************************************************)
InitCapacities ==
    /\ pc = "capacity"
    /\ \E capacity \in 0..MaxCapacity : eventPriorityQueue = BinaryHeap_new(capacity)
    /\ input = << >>
    /\ output = << >>
    /\ bankLine = Queue_new
    /\ tellerAvailable = TRUE
    /\ simulationTime = 0
    /\ customerCount = 0
    /\ cumulativeWaitTime = 0
    /\ averageWaitTime = NotComputed
    /\ served = << >>
    /\ InitObs /\ InitHist /\ InitCmp

capacityFrame == <<input, output, bankLine, tellerAvailable, simulationTime,
                   customerCount, cumulativeWaitTime, statVars, peekRun, histVars,
                   cmpVars>>

\* BinaryHeap::insert called.  When elements[elementCount] is not an element
\* of the array (after expandHeap, if it ran), the assignment is undefined
\* behaviour: the program is stopped, or the write lands outside the
\* array and insert goes on to count the element and return true.
CapacityInsert ==
    /\ pc = "capacity"
    /\ BinaryHeap_getElementCount(eventPriorityQueue) < MaxHeap
    /\ \E v \in DriverEvents :
          LET h == eventPriorityQueue
              g == IF h.elementCount = h.capacity THEN expandHeap(h) ELSE h
          IN /\ result' = v
             /\ IF g.elementCount < g.capacity
                THEN /\ eventPriorityQueue' = BinaryHeap_insert(h, v)
                     /\ outcome' = "ok"
                     /\ pc' = pc
                ELSE /\ pc' = "undefined"
                     /\ \/ /\ outcome' = "stopped"
                           /\ eventPriorityQueue' = g
                        \/ /\ outcome' = "ok"
                           /\ eventPriorityQueue' = [g EXCEPT !.elementCount = @ + 1]
    /\ lastOp' = "BinaryHeap::insert"
    /\ UNCHANGED capacityFrame

\* BinaryHeap::remove called
CapacityRemove ==
    /\ pc = "capacity"
    /\ LET r == BinaryHeap_remove(eventPriorityQueue)
       IN /\ outcome' = IF r.exc THEN EmptyDataCollectionException ELSE "ok"
          /\ eventPriorityQueue' = r.heap
    /\ lastOp' = "BinaryHeap::remove"
    /\ UNCHANGED <<pc, result, capacityFrame>>

\* BinaryHeap::retrieve called (a const method: the heap is left as it is)
CapacityRetrieve ==
    /\ pc = "capacity"
    /\ LET r == BinaryHeap_retrieve(eventPriorityQueue)
       IN /\ outcome' = IF r.exc THEN EmptyDataCollectionException ELSE "ok"
          /\ result' = IF r.exc THEN result ELSE r.val
    /\ lastOp' = "BinaryHeap::retrieve"
    /\ UNCHANGED <<pc, eventPriorityQueue, capacityFrame>>

NextCapacities == CapacityInsert \/ CapacityRemove \/ CapacityRetrieve

Capacities == InitCapacities /\ [][NextCapacities]_vars

(***************************************************************************)
(* Sift driver: reHeapDown called once, from any index, on an array of 1   *)
(* to MaxSift Events.                                                      *)
(***************************************************************************)
InitSifts ==
    /\ pc = "sift"
    /\ \E n \in 1..MaxSift :
          \E els \in [0..(n - 1) -> DriverEvents] :
             eventPriorityQueue = [elements |-> els, capacity |-> n, elementCount |-> n]
    /\ input = << >>
    /\ output = << >>
    /\ bankLine = Queue_new
    /\ tellerAvailable = TRUE
    /\ simulationTime = 0
    /\ customerCount = 0
    /\ cumulativeWaitTime = 0
    /\ averageWaitTime = NotComputed
    /\ served = << >>
    /\ InitObs /\ InitHist /\ InitCmp

\* reHeapDown(indexOfRoot) called; result records the call's argument and
\* the array as it was
SiftDown ==
    /\ pc = "sift"
    /\ \E indexOfRoot \in 0..(eventPriorityQueue.elementCount - 1) :
          /\ eventPriorityQueue' =
                [eventPriorityQueue EXCEPT
                    !.elements = reHeapDown(eventPriorityQueue.elements,
                                            eventPriorityQueue.elementCount, indexOfRoot)]
          /\ result' = [indexOfRoot |-> indexOfRoot, elements |-> eventPriorityQueue.elements]
    /\ pc' = "sifted"
    /\ lastOp' = "BinaryHeap::reHeapDown"
    /\ UNCHANGED <<outcome, capacityFrame>>

NextSifts == SiftDown

Sifts == InitSifts /\ [][NextSifts]_vars

(***************************************************************************)
(* main run a second time on the same input, with Arrival and Departure    *)
(* events of equal time popped in either order.  Event::operator< and      *)
(* operator> compare times only, so exchanging the root with a stored      *)
(* event of the same time gives a heap the comparisons cannot tell from    *)
(* the one before.                                                         *)
(***************************************************************************)
\* the read loop of main over the customers of an input already read
RECURSIVE EnqueueAll(_, _)
EnqueueAll(minheap, customers) ==
    IF customers = << >>
    THEN minheap
    ELSE EnqueueAll(PriorityQueue_enqueue(minheap,
                        Event_type_time_length(ARRIVAL, customers[1][1], customers[1][2])),
                    Tail(customers))

\* the run is over: its statistics are kept and main starts again on the
\* same input, up to its event loop
Rerun ==
    /\ pc = "done"
    /\ ~tieRun.rerun
    /\ tieRun' = [rerun |-> TRUE, cumulativeWaitTime |-> cumulativeWaitTime,
                  customerCount |-> customerCount, served |-> served, output |-> output]
    /\ pc' = "loop"
    /\ eventPriorityQueue' = EnqueueAll(PriorityQueue_new, input)
    /\ bankLine' = Queue_new
    /\ tellerAvailable' = TRUE
    /\ simulationTime' = 0
    /\ customerCount' = Len(input)
    /\ cumulativeWaitTime' = 0
    /\ averageWaitTime' = NotComputed
    /\ served' = << >>
    /\ output' = << >>
    /\ UNCHANGED <<input, obsVars, histVars, lhs, rhs, cmp, calls>>

\* the indices whose event the other tie order pops in place of the root:
\* for an Arrival at the root the stored Departure of the same time, for a
\* Departure at the root the Arrival of the same time that is popped once
\* the Departure is gone
TiePartners(minheap) ==
    LET root == minheap.elements[0]
        next == BinaryHeap_remove(minheap).heap
    IN {i \in 1..(minheap.elementCount - 1) :
          /\ Event_getTime(minheap.elements[i]) = Event_getTime(root)
          /\ IF Event_isArrival(root)
             THEN ~Event_isArrival(minheap.elements[i])
             ELSE /\ Event_isArrival(minheap.elements[i])
                  /\ next.elementCount > 0
                  /\ minheap.elements[i] = next.elements[0]}

\* the second run pops an equal-time event of the other kind first
SwapTie ==
    /\ pc = "loop"
    /\ tieRun.rerun
    /\ ~PriorityQueue_isEmpty(eventPriorityQueue)
    /\ \E i \in TiePartners(eventPriorityQueue) :
          eventPriorityQueue' =
              [eventPriorityQueue EXCEPT !.elements = Swap(eventPriorityQueue.elements, 0, i)]
    /\ UNCHANGED <<pc, input, output, bankLine, tellerAvailable, simulationTime,
                   customerCount, cumulativeWaitTime, statVars, obsVars, histVars, cmpVars>>

\* main at its event loop, the whole input read and enqueued
InitTieOrders ==
    /\ pc = "loop"
    /\ input \in UNION {[1..n -> (0..MaxTime) \X (0..MaxLen)] : n \in 0..MaxTieCustomers}
    /\ eventPriorityQueue = EnqueueAll(PriorityQueue_new, input)
    /\ customerCount = Len(input)
    /\ output = << >>
    /\ bankLine = Queue_new
    /\ tellerAvailable = TRUE
    /\ simulationTime = 0
    /\ cumulativeWaitTime = 0
    /\ averageWaitTime = NotComputed
    /\ served = << >>
    /\ InitObs /\ InitHist /\ InitCmp

NextTieOrders == LoopArrival \/ LoopDeparture \/ LoopExit \/ Rerun \/ SwapTie

TieOrders == InitTieOrders /\ [][NextTieOrders]_vars

(***************************************************************************)
(* Properties                                                              *)
(***************************************************************************)
\* the elements a heap stores, as a sequence in array order
Stored(h) == [i \in 1..h.elementCount |-> h.elements[i - 1]]

\* the multiset of the elements of a sequence
BagOfSeq(s) ==
    [x \in {s[i] : i \in DOMAIN s} |-> Cardinality({i \in DOMAIN s : s[i] = x})]

\* the data of the nodes from node n on, following next, at most fuel nodes
RECURSIVE Chain(_, _, _)
Chain(nodes, n, fuel) ==
    IF n = NULL \/ fuel = 0 \/ n \notin DOMAIN nodes
    THEN << >>
    ELSE <<nodes[n].data>> \o Chain(nodes, nodes[n].next, fuel - 1)

\* the elements of a queue from head to tail
QueueContents(q) == Chain(q.nodes, q.head, Cardinality(DOMAIN q.nodes))

\* the number of reported events of one kind
Processed(kind) == Cardinality({i \in DOMAIN output : output[i].type = kind})

\* the times of the arrivals reported, in the order reported
ArrivalTimesProcessed ==
    LET arrivals == SelectSeq(output, LAMBDA o : o.type = ARRIVAL)
    IN [i \in 1..Len(arrivals) |-> arrivals[i].time]

\* C1: after every insert and remove (enqueue and dequeue) of any call
\* sequence, no stored element has a smaller time than the element at index 0.
RootIsMinimum ==
    pc = "heap" =>
        \A i \in 0..(eventPriorityQueue.elementCount - 1) :
            eventPriorityQueue.elements[0].time <= eventPriorityQueue.elements[i].time

\* C1 witness: a remove has left a heap of at least two elements whose root
\* is strictly earlier than another stored element.
RootIsMinimumWitness ==
    /\ pc = "heap"
    /\ lastOp = "BinaryHeap::remove"
    /\ outcome = "ok"
    /\ eventPriorityQueue.elementCount >= 2
    /\ \E i \in 1..(eventPriorityQueue.elementCount - 1) :
          eventPriorityQueue.elements[0].time < eventPriorityQueue.elements[i].time

\* C2: whenever the event priority queue of the simulation holds an Arrival
\* and a Departure that both carry the smallest time in the queue, peek
\* returns the Arrival.
ArrivalFirstAtPeek ==
    LET stored == Stored(eventPriorityQueue)
        n == Len(stored)
    IN (\E i, j \in 1..n :
           /\ stored[i].type = ARRIVAL
           /\ stored[j].type = DEPARTURE
           /\ stored[i].time = stored[j].time
           /\ \A k \in 1..n : stored[i].time <= stored[k].time)
       => PriorityQueue_peek(eventPriorityQueue).val.type = ARRIVAL

\* C3: for every time t, Event(Arrival, t) < Event(Departure, t) is true and
\* Event(Departure, t) < Event(Arrival, t) is false.
ArrivalLessThanDeparture ==
    (cmp.done /\ lhs.time = rhs.time) =>
        /\ (lhs.type = ARRIVAL /\ rhs.type = DEPARTURE) => cmp.lt
        /\ (lhs.type = DEPARTURE /\ rhs.type = ARRIVAL) => ~cmp.lt

FifoOrder ==
    pc = "queue" =>
        /\ Len(removed) <= Len(inserted)
        /\ removed = SubSeq(inserted, 1, Len(removed))
        /\ QueueContents(bankLine) = SubSeq(inserted, Len(removed) + 1, Len(inserted))
        /\ (lastOp = "Queue::peek" /\ outcome = "ok")
              => result = inserted[Len(removed) + 1]

\* C5 witness: two different elements were dequeued, an element enqueued
\* after them is still waiting, and a peek has just returned.
FifoOrderWitness ==
    /\ pc = "queue"
    /\ Len(removed) >= 2
    /\ removed[1] # removed[2]
    /\ bankLine.size >= 2
    /\ lastOp = "Queue::peek"
    /\ outcome = "ok"

\* the calls that fail on an empty container
HeapFailingOps == {"BinaryHeap::retrieve", "BinaryHeap::remove",
                   "PriorityQueue::peek", "PriorityQueue::dequeue"}
QueueFailingOps == {"Queue::peek", "Queue::dequeue"}

\* C6: retrieve/remove on an empty BinaryHeap, peek/dequeue on an empty
\* PriorityQueue and peek/dequeue on an empty Queue end in
\* EmptyDataCollectionException and leave the container as it was.
EmptinessContract ==
    [][ /\ (pc = "heap" /\ lastOp' \in HeapFailingOps
               /\ eventPriorityQueue.elementCount = 0)
           => (outcome' = EmptyDataCollectionException
               /\ eventPriorityQueue' = eventPriorityQueue)
        /\ (pc = "queue" /\ lastOp' \in QueueFailingOps /\ bankLine.size = 0)
           => (outcome' = EmptyDataCollectionException
               /\ bankLine' = bankLine) ]_vars

\* C6 witness: a heap that has grown and has been emptied again has just
\* refused a remove.
EmptinessContractWitness ==
    /\ pc = "heap"
    /\ lastOp = "BinaryHeap::remove"
    /\ outcome = EmptyDataCollectionException
    /\ eventPriorityQueue.elementCount = 0
    /\ eventPriorityQueue.capacity > InitialCapacity

PeekOps == {"BinaryHeap::retrieve", "PriorityQueue::peek", "Queue::peek"}

\* C7: a successful peek/retrieve leaves the container as it was, and a
\* successful peek/retrieve that follows a successful peek/retrieve with no
\* call in between returns the same element.
PeekIdempotent ==
    [][ /\ (lastOp' \in PeekOps /\ outcome' = "ok")
           => (eventPriorityQueue' = eventPriorityQueue /\ bankLine' = bankLine)
        /\ (peekRun >= 1 /\ lastOp' \in PeekOps /\ outcome' = "ok")
           => result' = result ]_vars

\* C7 witness: two peeks in a row on a priority queue of at least two
\* elements.
PeekIdempotentWitness ==
    /\ pc = "heap"
    /\ peekRun = 2
    /\ lastOp = "PriorityQueue::peek"
    /\ eventPriorityQueue.elementCount >= 2

\* C8: tellerAvailable is true exactly when the waiting line is empty and
\* no Departure event is pending in the event priority queue.
TellerInvariant ==
    pc \in {"read", "loop", "done"} =>
        (tellerAvailable <=>
            (/\ bankLine.size = 0
             /\ \A i \in 0..(eventPriorityQueue.elementCount - 1) :
                   eventPriorityQueue.elements[i].type # DEPARTURE))

\* C8 witness: in the middle of a run the teller is idle again after a
\* departure, with arrivals still to come.
TellerInvariantWitness ==
    /\ pc = "loop"
    /\ tellerAvailable
    /\ Processed(DEPARTURE) >= 1
    /\ eventPriorityQueue.elementCount >= 1

\* C9: the event loop eventually ends, and it ends only with the event
\* priority queue empty.
Termination ==
    /\ <>(pc = "done")
    /\ [](pc = "done" => PriorityQueue_isEmpty(eventPriorityQueue))

\* C9 witness: a run of three customers, one of whom waited, has ended.
TerminationWitness ==
    /\ pc = "done"
    /\ Len(input) >= 3
    /\ cumulativeWaitTime > 0

\* C10: the loop never changes customerCount, the input pair count; when the
\* loop has ended, the arrivals processed are the input's arrivals, each
\* once, the departures processed are as many, and the waiting line is empty.
OneDeparturePerCustomer ==
    /\ pc \in {"loop", "done"} =>
          /\ customerCount = Len(input)
          /\ Processed(DEPARTURE) <= Processed(ARRIVAL)
          /\ Processed(ARRIVAL) <= customerCount
    /\ pc = "done" =>
          /\ Processed(ARRIVAL) = customerCount
          /\ Processed(DEPARTURE) = customerCount
          /\ bankLine.size = 0
          /\ BagOfSeq([i \in 1..Len(input) |-> input[i][1]]) = BagOfSeq(ArrivalTimesProcessed)

\* C10 witness: a run of two or more customers in which a customer waited
\* has ended.
OneDeparturePerCustomerWitness ==
    /\ pc = "done"
    /\ customerCount >= 2
    /\ Processed(DEPARTURE) >= 2
    /\ cumulativeWaitTime > 0

\* the sum of start - arrival over a sequence of services
RECURSIVE SumOfWaits(_)
SumOfWaits(s) ==
    IF s = << >> THEN 0 ELSE (Head(s).start - Head(s).arrival) + SumOfWaits(Tail(s))

\* the times of the departures reported, in the order reported
DepartureTimesProcessed ==
    LET departures == SelectSeq(output, LAMBDA o : o.type = DEPARTURE)
    IN [i \in 1..Len(departures) |-> departures[i].time]

\* the <<arrival time, length>> pairs of the customers served
ServedPairs == [i \in 1..Len(served) |-> <<served[i].arrival, served[i].length>>]

\* C11: at the end of a run cumulativeWaitTime is the sum, over the input
\* customers, each counted once, of service begin time minus arrival time,
\* where a customer's service begins its length before its departure; a
\* customer served on arrival contributes 0.
WaitBookkeeping ==
    pc = "done" =>
        /\ Len(served) = Len(input)
        /\ BagOfSeq(ServedPairs) = BagOfSeq(input)
        /\ DepartureTimesProcessed = [i \in 1..Len(served) |-> served[i].start + served[i].length]
        /\ \A i \in 1..Len(served) : ~served[i].waited => served[i].start = served[i].arrival
        /\ cumulativeWaitTime = SumOfWaits(served)

\* C11 witness: a run has ended in which one customer was served on arrival
\* and two waited, one of them arriving after time 0.
WaitBookkeepingWitness ==
    /\ pc = "done"
    /\ Len(served) = 3
    /\ ~served[1].waited
    /\ served[2].waited /\ served[3].waited
    /\ \E i \in 2..3 : served[i].arrival > 0 /\ served[i].start > served[i].arrival

\* C12: simulationTime never decreases from one processed event to the next
\* and, while an event is processed, equals that event's time: every
\* iteration of the loop sets the clock to the time of the event it reports,
\* that time is not before the clock of the previous iteration, and the
\* reported times are in non-decreasing order.
ClockMonotone ==
    /\ pc \in {"loop", "done"} =>
          /\ \A i, j \in 1..Len(output) : i < j => output[i].time <= output[j].time
          /\ Len(output) > 0 => simulationTime = output[Len(output)].time
          /\ Len(output) = 0 => simulationTime = 0
    /\ pc = "loop" =>
          \A i \in 1..eventPriorityQueue.elementCount :
              simulationTime <= Stored(eventPriorityQueue)[i].time

\* C12 witness: the clock has advanced twice, a departure was processed
\* between two arrivals, and an event is still pending.
ClockMonotoneWitness ==
    /\ pc = "loop"
    /\ Len(output) >= 3
    /\ output[1].time < output[Len(output)].time
    /\ \E i \in 2..(Len(output) - 1) : output[i].type = DEPARTURE
    /\ output[Len(output)].type = ARRIVAL
    /\ eventPriorityQueue.elementCount >= 1

\* C13: for inputs whose times and lengths are >= 0, the waitTime computed
\* by processDeparture is >= 0, so that no step makes cumulativeWaitTime
\* smaller: a step that takes a customer off the line adds the time since
\* that customer's arrival, which is not negative.
NonNegativeWaits ==
    [][ /\ cumulativeWaitTime' >= cumulativeWaitTime
        /\ (pc = "loop" /\ bankLine'.size < bankLine.size) =>
              /\ cumulativeWaitTime' - cumulativeWaitTime
                    = simulationTime' - Event_getTime(Queue_peek(bankLine).val)
              /\ simulationTime' >= Event_getTime(Queue_peek(bankLine).val) ]_vars

\* C13 witness: two customers have left the line, the first after no wait at
\* all and the second after a positive wait.
NonNegativeWaitsWitness ==
    /\ pc \in {"loop", "done"}
    /\ \E i, j \in 1..Len(served) :
          /\ i < j
          /\ served[i].waited /\ served[i].start = served[i].arrival
          /\ served[j].waited /\ served[j].start > served[j].arrival

\* C14: in no run does a peek or dequeue issued by main, processArrival or
\* processDeparture meet an empty event priority queue or an empty waiting
\* line: no run is aborted by EmptyDataCollectionException, and whenever the
\* loop is about to run an iteration its peek and its handler's dequeue
\* succeed.
NoEmptyCollection ==
    /\ pc # "aborted"
    /\ outcome # EmptyDataCollectionException
    /\ (pc = "loop" /\ ~PriorityQueue_isEmpty(eventPriorityQueue)) =>
          /\ ~PriorityQueue_peek(eventPriorityQueue).exc
          /\ ~PriorityQueue_dequeue(eventPriorityQueue).exc

\* C14 witness: a run has ended in which a departure took a customer off
\* the line and the last departure met an empty line and emptied the event
\* priority queue.
NoEmptyCollectionWitness ==
    /\ pc = "done"
    /\ outcome = "ok"
    /\ \E i \in 1..Len(served) : served[i].waited
    /\ Len(output) >= 4
    /\ output[Len(output)].type = DEPARTURE
    /\ bankLine.size = 0
    /\ eventPriorityQueue.elementCount = 0

\* the Departure events stored in the event priority queue
PendingDepartures ==
    {i \in 1..eventPriorityQueue.elementCount :
        Stored(eventPriorityQueue)[i].type = DEPARTURE}

\* C15: the event priority queue never holds more than one Departure event.
SingleServer ==
    pc \in {"read", "loop", "done"} => Cardinality(PendingDepartures) <= 1

\* C15 witness: one Departure is pending while a customer waits on the line
\* and another arrival is still to be processed.
SingleServerWitness ==
    /\ pc = "loop"
    /\ Cardinality(PendingDepartures) = 1
    /\ bankLine.size >= 1
    /\ eventPriorityQueue.elementCount >= 2

\* the input of scenario 2 and the events its run is documented to report
Scenario2Input == <<<<0, 10>>, <<2, 3>>>>
Scenario2Output ==
    <<[type |-> ARRIVAL, time |-> 0], [type |-> ARRIVAL, time |-> 2],
      [type |-> DEPARTURE, time |-> 10], [type |-> DEPARTURE, time |-> 13]>>

\* C16: for the input (0,10), (2,3) the events are processed in the order
\* Arrival 0, Arrival 2, Departure 10, Departure 13; the second customer
\* begins service at 10 after a wait of 10 - 2 = 8; the run ends with
\* customerCount = 2, cumulativeWaitTime = 8 and an average of 4.
Scenario2 ==
    (input = Scenario2Input /\ pc \in {"loop", "done"}) =>
        /\ Len(output) <= Len(Scenario2Output)
        /\ output = SubSeq(Scenario2Output, 1, Len(output))
        /\ pc = "done" =>
              /\ output = Scenario2Output
              /\ served = <<[arrival |-> 0, length |-> 10, start |-> 0, waited |-> FALSE],
                            [arrival |-> 2, length |-> 3, start |-> 10, waited |-> TRUE]>>
              /\ customerCount = 2
              /\ cumulativeWaitTime = 8
              /\ averageWaitTime.kind = "number"
              /\ averageWaitTime.num = 4 * averageWaitTime.den

\* C16 witness: the run on the input of scenario 2 has ended.
Scenario2Witness ==
    /\ pc = "done"
    /\ input = Scenario2Input
    /\ Len(output) = 4

\* the inputs of scenario 3: the lengths 1, 2, 3 at time 0, in any order
Scenario3Inputs ==
    {in \in [1..3 -> {<<0, 1>>, <<0, 2>>, <<0, 3>>}] :
        \A i, j \in 1..3 : i # j => in[i] # in[j]}

\* the services begun on arrival
ServedOnArrival == {i \in 1..Len(served) : ~served[i].waited}

\* C17: for three arrivals at time 0 with lengths 1, 2, 3, exactly one
\* customer, the first one popped from the event priority queue, is served
\* immediately; each of the other two is put at the back of the waiting
\* line; and a customer who begins service after waiting is the one at the
\* front of the line, so that the two begin service in the order in which
\* they were placed on the line, whatever their lengths.
Scenario3 ==
    /\ [](input \in Scenario3Inputs =>
            /\ pc = "loop" => Cardinality(ServedOnArrival) <= 1
            /\ pc = "done" =>
                  /\ Len(served) = 3
                  /\ ServedOnArrival = {1}
                  /\ output[1].type = ARRIVAL)
    /\ [][(input \in Scenario3Inputs /\ pc = "loop") =>
            LET line == QueueContents(bankLine)
                popped == PriorityQueue_peek(eventPriorityQueue).val
            IN /\ (served' # served /\ ~served'[Len(served')].waited) =>
                     /\ served = << >>
                     /\ output = << >>
                     /\ served' = <<Service(popped, 0, FALSE)>>
                     /\ bankLine' = bankLine
               /\ bankLine'.size > bankLine.size =>
                     /\ QueueContents(bankLine') = Append(line, popped)
                     /\ served' = served
               /\ (served' # served /\ served'[Len(served')].waited) =>
                     /\ line # << >>
                     /\ served' = Append(served, Service(Head(line), simulationTime', TRUE))
                     /\ QueueContents(bankLine') = Tail(line)]_vars

\* C17 witness: the run has ended, two customers were on the line together,
\* and the longer of the two began service before the shorter.
Scenario3Witness ==
    /\ pc = "done"
    /\ input \in Scenario3Inputs
    /\ Len(served) = 3
    /\ served[2].waited /\ served[3].waited
    /\ served[3].arrival < served[2].start
    /\ served[2].length > served[3].length

\* C18: at the end of every run in which no customer was placed on the
\* waiting line, the run on the empty input included, the average wait time
\* cumulativeWaitTime / customerCount is defined and equal to zero.
ZeroAverageWhenNobodyWaited ==
    (pc = "done" /\ \A i \in 1..Len(served) : ~served[i].waited) =>
        /\ averageWaitTime.kind = "number"
        /\ averageWaitTime.num = 0

\* C19: for every Event obtained by a constructor followed by any sequence
\* of setType, setTime and setLength calls, a Departure has getLength() = 0.
DepartureHasNoLength ==
    pc = "event" => (Event_getType(lhs) = DEPARTURE => Event_getLength(lhs) = 0)

\* C20: for a BinaryHeap constructed with any capacity the constructor
\* accepts, after every insert and remove elementCount <= capacity, and
\* an insert returns true with the new element stored inside the backing
\* array.
CountWithinCapacity ==
    pc \in {"capacity", "undefined"} =>
        /\ eventPriorityQueue.elementCount <= eventPriorityQueue.capacity
        /\ lastOp = "BinaryHeap::insert" =>
              /\ outcome = "ok"
              /\ \E i \in DOMAIN eventPriorityQueue.elements :
                    /\ i < eventPriorityQueue.elementCount
                    /\ eventPriorityQueue.elements[i] = result

\* the nodes from node n on, following next, at most fuel nodes
RECURSIVE NodeChain(_, _, _)
NodeChain(nodes, n, fuel) ==
    IF n = NULL \/ fuel = 0 \/ n \notin DOMAIN nodes
    THEN << >>
    ELSE <<n>> \o NodeChain(nodes, nodes[n].next, fuel - 1)

\* the nodes reachable from head, in link order
ReachableNodes(q) == NodeChain(q.nodes, q.head, Cardinality(DOMAIN q.nodes) + 1)

\* C21: after every enqueue and dequeue, size is the number of nodes
\* reachable from head; size = 0 exactly when head and tail are both null;
\* and when size > 0, tail is the last node of the chain that starts at
\* head, and its next link is null.
QueueStructure ==
    pc = "queue" =>
        LET chain == ReachableNodes(bankLine)
        IN /\ bankLine.size = Len(chain)
           /\ \A i, j \in 1..Len(chain) : i # j => chain[i] # chain[j]
           /\ bankLine.size = 0 <=> (bankLine.head = NULL /\ bankLine.tail = NULL)
           /\ bankLine.size > 0 =>
                 /\ bankLine.tail = chain[Len(chain)]
                 /\ bankLine.nodes[bankLine.tail].next = NULL

\* C21 witness: a dequeue has left a chain of at least two nodes, and a node
\* address freed earlier is in use again.
QueueStructureWitness ==
    /\ pc = "queue"
    /\ lastOp = "Queue::dequeue"
    /\ outcome = "ok"
    /\ bankLine.size >= 2
    /\ bankLine.head # bankLine.tail
    /\ Len(removed) >= 2
    /\ bankLine.tail < bankLine.head

\* the event the next iteration of the loop processes
NextEvent == PriorityQueue_peek(eventPriorityQueue).val

\* a step of the loop that processes an event of the given kind
Processing(kind) ==
    /\ pc = "loop"
    /\ Len(output') = Len(output) + 1
    /\ Event_getType(NextEvent) = kind

\* the stored events of the event priority queue, as a multiset
Pending == BagOfSeq(Stored(eventPriorityQueue))

\* the multiset b without one occurrence of x
BagWithout(b, x) == b (-) SetToBag({x})

\* the multiset b with one more occurrence of x
BagWith(b, x) == b (+) SetToBag({x})

\* C22: when an Arrival with time t and length s is processed with
\* tellerAvailable true and the waiting line empty, the arrival leaves the
\* event queue, exactly one Departure with time t + s enters it,
\* tellerAvailable becomes false, and the waiting line and
\* cumulativeWaitTime are unchanged.
ArrivalWhileIdle ==
    [][(Processing(ARRIVAL) /\ tellerAvailable /\ Queue_isEmpty(bankLine)) =>
          LET t == Event_getTime(NextEvent)
              s == Event_getLength(NextEvent)
          IN /\ BagOfSeq(Stored(eventPriorityQueue')) =
                    BagWith(BagWithout(Pending, NextEvent), Event_type_time(DEPARTURE, t + s))
             /\ eventPriorityQueue'.elementCount = eventPriorityQueue.elementCount
             /\ tellerAvailable' = FALSE
             /\ bankLine' = bankLine
             /\ cumulativeWaitTime' = cumulativeWaitTime]_vars

\* C22 witness: an arrival at time 1 with length 2 has just been served on
\* arrival, its departure at time 3 is pending, and it is not the first
\* customer of the run.
ArrivalWhileIdleWitness ==
    /\ pc = "loop"
    /\ Len(output) >= 3
    /\ output[Len(output)] = [type |-> ARRIVAL, time |-> 1]
    /\ Len(served) >= 2
    /\ served[Len(served)] = [arrival |-> 1, length |-> 2, start |-> 1, waited |-> FALSE]
    /\ \E i \in 1..eventPriorityQueue.elementCount :
          Stored(eventPriorityQueue)[i] = Event_type_time(DEPARTURE, 3)

\* C23: when an Arrival is processed with the teller busy or the waiting
\* line non-empty, the arrival, with its time and service length, is
\* appended at the back of the waiting line; tellerAvailable,
\* cumulativeWaitTime and the pending Departure events are unchanged; the
\* event queue only loses the processed arrival.
ArrivalWhileBusy ==
    [][(Processing(ARRIVAL) /\ (~tellerAvailable \/ ~Queue_isEmpty(bankLine))) =>
          /\ QueueContents(bankLine') = Append(QueueContents(bankLine), NextEvent)
          /\ bankLine'.size = bankLine.size + 1
          /\ tellerAvailable' = tellerAvailable
          /\ cumulativeWaitTime' = cumulativeWaitTime
          /\ BagOfSeq(Stored(eventPriorityQueue')) = BagWithout(Pending, NextEvent)
          /\ eventPriorityQueue'.elementCount = eventPriorityQueue.elementCount - 1
          /\ BagOfSeq(SelectSeq(Stored(eventPriorityQueue'), LAMBDA e : e.type = DEPARTURE))
                = BagOfSeq(SelectSeq(Stored(eventPriorityQueue), LAMBDA e : e.type = DEPARTURE))]_vars

\* C23 witness: an arrival with a service length has just joined a line on
\* which another customer was already waiting.
ArrivalWhileBusyWitness ==
    /\ pc = "loop"
    /\ Len(output) >= 3
    /\ output[Len(output)].type = ARRIVAL
    /\ bankLine.size = 2
    /\ ~tellerAvailable
    /\ Len(served) = 1
    /\ Event_getLength(bankLine.nodes[bankLine.tail].data) > 0
    /\ Event_getTime(bankLine.nodes[bankLine.tail].data) = simulationTime

\* C24: when a Departure at time t is processed with a non-empty waiting
\* line, exactly the front customer (arrival a, length s) leaves the line,
\* cumulativeWaitTime grows by exactly t - a, exactly one Departure with
\* time t + s enters the event queue in place of the one processed, and
\* tellerAvailable stays false.
DepartureWithLine ==
    [][(Processing(DEPARTURE) /\ ~Queue_isEmpty(bankLine)) =>
          LET t == Event_getTime(NextEvent)
              line == QueueContents(bankLine)
              a == Event_getTime(Head(line))
              s == Event_getLength(Head(line))
          IN /\ QueueContents(bankLine') = Tail(line)
             /\ bankLine'.size = bankLine.size - 1
             /\ cumulativeWaitTime' = cumulativeWaitTime + (t - a)
             /\ BagOfSeq(Stored(eventPriorityQueue')) =
                    BagWith(BagWithout(Pending, NextEvent), Event_type_time(DEPARTURE, t + s))
             /\ eventPriorityQueue'.elementCount = eventPriorityQueue.elementCount
             /\ ~tellerAvailable
             /\ ~tellerAvailable']_vars

\* C24 witness: a departure has just taken from the line a customer who
\* had waited and has a service length, another customer stays on the line.
DepartureWithLineWitness ==
    /\ pc = "loop"
    /\ Len(output) >= 2
    /\ output[Len(output)].type = DEPARTURE
    /\ Len(served) = 2
    /\ served[2].waited
    /\ served[2].start = simulationTime
    /\ served[2].start > served[2].arrival
    /\ served[2].length > 0
    /\ bankLine.size = 1

\* C25: when a Departure is processed with an empty waiting line,
\* tellerAvailable becomes true, the event queue loses the processed
\* Departure and gains no event, and the waiting line and
\* cumulativeWaitTime are unchanged.
DepartureWithEmptyLine ==
    [][(Processing(DEPARTURE) /\ Queue_isEmpty(bankLine)) =>
          /\ tellerAvailable' = TRUE
          /\ BagOfSeq(Stored(eventPriorityQueue')) = BagWithout(Pending, NextEvent)
          /\ eventPriorityQueue'.elementCount = eventPriorityQueue.elementCount - 1
          /\ bankLine' = bankLine
          /\ cumulativeWaitTime' = cumulativeWaitTime]_vars

\* C25 witness: the departure of the second customer, who had waited, has
\* just found the line empty, with a later arrival still pending.
DepartureWithEmptyLineWitness ==
    /\ pc = "loop"
    /\ Len(output) >= 4
    /\ output[Len(output)].type = DEPARTURE
    /\ Len(served) = 2
    /\ served[2].waited
    /\ tellerAvailable
    /\ bankLine.size = 0
    /\ eventPriorityQueue.elementCount = 1
    /\ Event_getTime(NextEvent) > simulationTime

\* C26: in every reachable state of the event priority queue, every
\* non-root index i with parent p = (i - 1) / 2 has elements[p] <=
\* elements[i] under Event's operator<= (time ascending, an equal-time
\* Arrival before an equal-time Departure).
WeakHeapOrder ==
    pc \in {"read", "loop", "done"} =>
        \A i \in 1..(eventPriorityQueue.elementCount - 1) :
            Event_le(eventPriorityQueue.elements[(i - 1) \div 2],
                     eventPriorityQueue.elements[i])

\* the place of a customer in the input: the index of its pair
InputIndex(e) ==
    CHOOSE i \in 1..Len(input) : input[i] = <<Event_getTime(e), Event_getLength(e)>>

\* C27: events of the same kind and the same time are dequeued from the
\* event priority queue in the order in which they were enqueued: when the
\* customers of the input are pairwise different, the arrival the loop is
\* about to process is, among the pending arrivals of its time, the one
\* read first.
StableOrder ==
    (/\ pc = "loop"
     /\ \A i, j \in 1..Len(input) : i # j => input[i] # input[j]
     /\ ~PriorityQueue_isEmpty(eventPriorityQueue)
     /\ Event_isArrival(PriorityQueue_peek(eventPriorityQueue).val))
    => LET first == PriorityQueue_peek(eventPriorityQueue).val
       IN \A i \in 1..eventPriorityQueue.elementCount :
             LET e == Stored(eventPriorityQueue)[i]
             IN (Event_isArrival(e) /\ Event_getTime(e) = Event_getTime(first))
                   => InputIndex(first) <= InputIndex(e)

\* index j lies on the path from index i up to the root
RECURSIVE OnPathToRoot(_, _)
OnPathToRoot(i, j) ==
    \/ i = j
    \/ (i > 0 /\ OnPathToRoot(ParentIndex(i), j))

\* C28: insert changes capacity only when called with elementCount =
\* capacity, and then capacity becomes exactly twice its old value with
\* elements[0..elementCount-1] copied to the same positions before the new
\* element is appended (so that afterwards every element off the path from
\* the new slot to the root is where it was); remove and retrieve never
\* change capacity.
CapacityOnlyDoubles ==
    /\ [](pc = "capacity" =>
            LET h == eventPriorityQueue
                g == expandHeap(h)
            IN /\ g.capacity = 2 * h.capacity
               /\ g.elementCount = h.elementCount
               /\ DOMAIN g.elements = 0..(g.capacity - 1)
               /\ \A i \in 0..(h.elementCount - 1) : g.elements[i] = h.elements[i])
    /\ [][pc = "capacity" =>
            LET h == eventPriorityQueue
                k == eventPriorityQueue'
            IN /\ lastOp' \in {"BinaryHeap::remove", "BinaryHeap::retrieve"} =>
                     k.capacity = h.capacity
               /\ (lastOp' = "BinaryHeap::insert" /\ h.elementCount # h.capacity) =>
                     k.capacity = h.capacity
               /\ (lastOp' = "BinaryHeap::insert" /\ h.elementCount = h.capacity) =>
                     k.capacity = 2 * h.capacity
               /\ (lastOp' = "BinaryHeap::insert" /\ pc' = "capacity") =>
                     /\ DOMAIN k.elements = 0..(k.capacity - 1)
                     /\ \A i \in 0..(h.elementCount - 1) :
                           ~OnPathToRoot(h.elementCount, i) => k.elements[i] = h.elements[i]]_vars

\* C28 witness: an insert has left three elements, the root earlier than its
\* left child, in an array that has doubled to capacity 4.
CapacityOnlyDoublesWitness ==
    /\ pc = "capacity"
    /\ eventPriorityQueue.capacity = 4
    /\ eventPriorityQueue.elementCount = 3
    /\ lastOp = "BinaryHeap::insert"
    /\ eventPriorityQueue.elements[0].time < eventPriorityQueue.elements[1].time

\* C29: on a non-empty heap, remove decreases elementCount by exactly one
\* and leaves the multiset of stored elements minus one occurrence of the
\* element retrieve returned just before; on a heap of one element it
\* leaves count 0 and the array untouched (no downward sift).
RemoveDeletesMinimum ==
    [][(/\ pc = "heap"
        /\ lastOp' \in {"BinaryHeap::remove", "PriorityQueue::dequeue"}
        /\ eventPriorityQueue.elementCount > 0) =>
          /\ outcome' = "ok"
          /\ eventPriorityQueue'.elementCount = eventPriorityQueue.elementCount - 1
          /\ BagOfSeq(Stored(eventPriorityQueue'))
                = BagWithout(Pending, BinaryHeap_retrieve(eventPriorityQueue).val)
          /\ \A i \in 1..eventPriorityQueue.elementCount :
                ~Event_lt(Stored(eventPriorityQueue)[i], BinaryHeap_retrieve(eventPriorityQueue).val)
          /\ eventPriorityQueue.elementCount = 1 =>
                /\ eventPriorityQueue'.elementCount = 0
                /\ eventPriorityQueue'.elements = eventPriorityQueue.elements]_vars

\* C29 witness: a dequeue has left three elements of both kinds and of
\* different times in a heap that has grown.
RemoveDeletesMinimumWitness ==
    /\ pc = "heap"
    /\ lastOp = "PriorityQueue::dequeue"
    /\ outcome = "ok"
    /\ eventPriorityQueue.elementCount = 3
    /\ eventPriorityQueue.capacity > InitialCapacity
    /\ \E i, j \in 1..3 :
          /\ Stored(eventPriorityQueue)[i].type # Stored(eventPriorityQueue)[j].type
          /\ Stored(eventPriorityQueue)[i].time # Stored(eventPriorityQueue)[j].time

LeftChildWinsTies ==
    pc = "sifted" =>
        LET before == result.elements
            node == result.indexOfRoot
            left == 2 * node + 1
            right == 2 * node + 2
        IN (/\ right < eventPriorityQueue.elementCount
            /\ ~Event_lt(before[left], before[right])
            /\ ~Event_gt(before[left], before[right])
            /\ Event_lt(before[left], before[node])
            /\ Event_lt(before[right], before[node]))
           => /\ eventPriorityQueue.elements[node] = before[left]
              /\ eventPriorityQueue.elements[right] = before[right]

\* C31 witness: a node below the root had two children of equal time and
\* different kinds, both earlier than the node, and has been sifted down.
LeftChildWinsTiesWitness ==
    /\ pc = "sifted"
    /\ result.indexOfRoot = 1
    /\ eventPriorityQueue.elementCount >= 5
    /\ result.elements[3].time = result.elements[4].time
    /\ result.elements[3].type # result.elements[4].type
    /\ result.elements[3].time < result.elements[1].time
    /\ eventPriorityQueue.elements # result.elements

\* C32: in every run customers begin service in non-decreasing order of
\* their arrival time: no customer starts service before a customer who
\* arrived strictly earlier.
ServiceInArrivalOrder ==
    pc \in {"read", "loop", "done"} =>
        /\ \A i, j \in 1..Len(served) :
              i < j => /\ served[i].arrival <= served[j].arrival
                       /\ served[i].start <= served[j].start
        /\ \A i \in 1..Len(served) : \A k \in 1..Len(QueueContents(bankLine)) :
              served[i].arrival <= Event_getTime(QueueContents(bankLine)[k])

\* C32 witness: a run has ended whose input had a later arrival before an
\* earlier one and in which the customer who arrived last waited.
ServiceInArrivalOrderWitness ==
    /\ pc = "done"
    /\ Len(served) = 3
    /\ input[1][1] > input[2][1]
    /\ served[1].arrival < served[3].arrival
    /\ served[3].waited
    /\ served[3].start > served[3].arrival

\* the (customer, service start time) pairs of a sequence of services
ServiceStarts(services) ==
    [i \in 1..Len(services) |->
        <<services[i].arrival, services[i].length, services[i].start>>]

\* C33: whichever of an Arrival and a Departure of equal time is popped
\* first, the run ends with the same cumulativeWaitTime, the same
\* customerCount and the same multiset of (customer, service start time)
\* pairs: every second run of main, over every choice at every tie, ends
\* with the statistics of the first run.
TieOrderIndependent ==
    (pc = "done" /\ tieRun.rerun) =>
        /\ cumulativeWaitTime = tieRun.cumulativeWaitTime
        /\ customerCount = tieRun.customerCount
        /\ BagOfSeq(ServiceStarts(served)) = BagOfSeq(ServiceStarts(tieRun.served))

\* C34: the comparison operators of Event agree with one another: for all
\* events a and b, a < b implies a <= b, a > b holds exactly when a <= b
\* does not, and a < b holds exactly when b > a.
OperatorsAgree ==
    cmp.done =>
        /\ cmp.lt => cmp.le
        /\ cmp.gt <=> ~cmp.le
        /\ cmp.lt <=> Event_gt(rhs, lhs)

\* C35: the heap of the PriorityQueue, constructed with capacity 2, is
\* indexed within its array only: whatever element is inserted next, and
\* when the root is removed next, every index at which insert, remove,
\* reHeapUp and reHeapDown read or write elements is below the capacity of
\* the array indexed; this includes the insert into an empty heap, where
\* reHeapUp computes the parent of index 0 as (0 - 1) / 2 unsigned.
AccessesInBounds ==
    pc = "heap" =>
        /\ \A v \in DriverEvents :
              \A access \in BinaryHeap_insert_accesses(eventPriorityQueue, v) :
                 access[1] >= 0 /\ access[1] < access[2]
        /\ \A access \in BinaryHeap_remove_accesses(eventPriorityQueue) :
              access[1] >= 0 /\ access[1] < access[2]

\* an element was inserted into the empty heap of capacity 2, where the
\* parent index reHeapUp computes lies beyond the array, and the heap can
\* take another element without growing
AccessesInBoundsWitness ==
    /\ pc = "heap"
    /\ lastOp = "BinaryHeap::insert"
    /\ eventPriorityQueue.elementCount = 1
    /\ eventPriorityQueue.capacity = InitialCapacity
    /\ ParentIndex(0) >= eventPriorityQueue.capacity

====
